---- MODULE Spec2Model ----
(***************************************************************************)
(* Ledger and balance consistency of the bank backend.                     *)
(*                                                                         *)
(* The store (tables profiles and transactions) is shared by concurrent    *)
(* HTTP requests.  A request handler runs atomically between two awaited   *)
(* store calls, so every action below is one store call (with its          *)
(* outcome) followed by the handler code up to the next awaited call.      *)
(* Amounts and balances are whole numbers of the smallest currency unit.   *)
(***************************************************************************)
EXTENDS Integers, Sequences, FiniteSets, TLC

\* ------------------------------------------------------------------ bounds
MaxReq == 2
MaxOps == 2
MaxAmount == 1
MaxBalance0 == 1
MaxNow == 1
MaxCalc == 3
MaxChat == 2
MaxChatOps == 3

Users == {"u1", "u2"}
\* a user id a valid token carries while table profiles has no row for it
UnknownUsers == {"u0"}
Reqs == 1..MaxReq
Amounts == 0..MaxAmount

\* account_number of each profile (generateAccountNumber at signup)
AccountNumber(u) == IF u = "u1" THEN 1 ELSE 2
\* to_account_number values a request may carry: 0 is an absent field,
\* 3 a number no profile has
NoAccount == 0
ToNumbers == {0, 1, 2, 3}

\* ------------------------------------------------------------- constants.mjs
TRANSACTION_TYPES == {"credit", "debit"}
validTransactionTypes == {"transfer", "withdrawal", "deposit", "payment", "refund"}
INSUFFICIENT_FUNDS == "INSUFFICIENT_FUNDS"
ACCOUNT_NOT_FOUND == "ACCOUNT_NOT_FOUND"
TRANSACTION_FAILED == "TRANSACTION_FAILED"
\* the code the specification asks for; ERROR_CODES does not define it
COMPENSATION_FAILED == "COMPENSATION_FAILED"

\* request inputs are drawn from these
InTypes == TRANSACTION_TYPES \cup {"other"}
InCategories == {"transfer", "deposit", "bogus"}
\* outcomes of one awaited store call: the call is applied and returns data,
\* returns {error} without being applied, or rejects (throws into catch)
Outcomes == {"ok", "error", "throw"}

\* ---------------------------------------------------------------- helpers.mjs
Lower == <<"a","b","c","d","e","f","g","h","i","j","k","l","m",
           "n","o","p","q","r","s","t","u","v","w","x","y","z">>
UpperCase == <<"A","B","C","D","E","F","G","H","I","J","K","L","M",
               "N","O","P","Q","R","S","T","U","V","W","X","Y","Z">>
Digits36 == <<"0","1","2","3","4","5","6","7","8","9">> \o Lower

\* String.prototype.toUpperCase on a sequence of characters
toUpperCase(s) ==
  [i \in DOMAIN s |->
     IF \E k \in DOMAIN Lower : Lower[k] = s[i]
     THEN UpperCase[CHOOSE k \in DOMAIN Lower : Lower[k] = s[i]]
     ELSE s[i]]

\* String.prototype.substring(from, to), 0-based, end exclusive
substring(s, from, to) ==
  LET hi == IF to > Len(s) THEN Len(s) ELSE to
  IN IF from >= hi THEN <<>> ELSE SubSeq(s, from + 1, hi)

\* Number.prototype.toString(36) of a non-negative integer
RECURSIVE toString36(_)
toString36(n) ==
  IF n < 36 THEN <<Digits36[n + 1]>>
  ELSE toString36(n \div 36) \o <<Digits36[(n % 36) + 1]>>

\* the characters of the category names
Chars(type) ==
  CASE type = "transfer" -> <<"t","r","a","n","s","f","e","r">>
    [] type = "withdrawal" -> <<"w","i","t","h","d","r","a","w","a","l">>
    [] type = "deposit" -> <<"d","e","p","o","s","i","t">>
    [] type = "payment" -> <<"p","a","y","m","e","n","t">>
    [] type = "refund" -> <<"r","e","f","u","n","d">>
    [] OTHER -> <<"b","o","g","u","s">>

\* Math.random().toString(36) is "0." followed by base-36 digits; these are
\* the digit strings the model draws from (1/2, and a longer fraction)
RandomStrings ==
  { <<"0",".","i">>,
    <<"0",".","4","f","z","k","2","q","9">> }

\* variant: an unknown type is treated as a debit
calculateNewBalanceDebitDefault(currentBalance, amount, type) ==
  IF type = "credit" THEN currentBalance + amount
  ELSE currentBalance - amount

calculateNewBalance(currentBalance, amount, type) ==
  IF type = "credit" THEN currentBalance + amount
  ELSE IF type = "debit" THEN currentBalance - amount
  ELSE currentBalance

generateReference(type, dateNow, mathRandom) ==
  LET prefix == substring(toUpperCase(Chars(type)), 0, 3)
      timestamp == toString36(dateNow)
      random == substring(mathRandom, 2, 8)
  IN toUpperCase(prefix \o <<"-">> \o timestamp \o <<"-">> \o random)

NoReference == <<>>

\* -------------------------------------------------------------------- state
VARIABLES
  profiles,      \* table profiles: user id -> [balance, is_active, account_number]
  transactions,  \* table transactions: the set of ledger rows
  nextId,        \* next row id the store hands out
  now,           \* Date.now() as last read (time is read only there)
  req,           \* per request slot: the handler's position and locals
  ops,           \* number of requests made so far
  balance0,      \* history: each account's balance in the initial state
  serial,        \* history: no store call ever fell inside another request
  chat_conversations,  \* table chat_conversations: the set of conversation rows
  chat_messages,       \* table chat_messages: the set of message rows
  timers,        \* setTimeout callbacks scheduled and not yet finished
  chat           \* per chat request slot: the handler's position and locals

chatVars == <<chat_conversations, chat_messages, timers, chat>>
vars == <<profiles, transactions, nextId, now, req, ops, balance0, serial,
          chat_conversations, chat_messages, timers, chat>>

NoRes == [status |-> 0, code |-> "none", new_balance |-> 0, transaction |-> 0]
NoUser == [id |-> "none", balance |-> 0, is_active |-> FALSE, account_number |-> NoAccount]
NoBody == [type |-> "none", amount |-> 0, to_account_number |-> NoAccount,
           transaction_type |-> "none"]
NoRecipient == [id |-> "none", balance |-> 0, is_active |-> FALSE]
NoSender == [balance |-> 0, account_number |-> NoAccount]
NoCalls == [insert |-> 0, delete |-> 0, update |-> 0]

\* a chat request slot at rest, and the chat tables and timers at start
ChatReqs == 1..MaxChat
NoChatRes == [status |-> 0, code |-> "none"]
IdleChat ==
  [route |-> "none", pc |-> "idle", user |-> "none", conversationId |-> 0,
   message |-> 0, res |-> NoChatRes, failed |-> {}, thrown |-> "none"]

ChatInit ==
  /\ chat_conversations = {}
  /\ chat_messages = {}
  /\ timers = {}
  /\ chat = [c \in ChatReqs |-> IdleChat]

IdleReq ==
  [route |-> "none", pc |-> "idle", op |-> 0, user |-> NoUser, body |-> NoBody,
   profile |-> 0, recipient |-> NoRecipient, senderProfile |-> NoSender,
   reference |-> NoReference, transaction |-> 0, creditTransaction |-> 0,
   res |-> NoRes, calls |-> NoCalls, failed |-> {}, thrown |-> "none", undo |-> <<>>,
   issued |-> <<>>,
   pre |-> [u \in Users |-> [balance |-> 0, is_active |-> FALSE,
                             account_number |-> NoAccount]],
   alone |-> TRUE]

Busy(r) == req[r].pc \notin {"idle", "done"}

Init ==
  /\ \E balance \in [Users -> 0..MaxBalance0], is_active \in [Users -> BOOLEAN] :
       profiles = [u \in Users |->
                     [balance |-> balance[u], is_active |-> is_active[u],
                      account_number |-> AccountNumber(u)]]
  /\ transactions = {}
  /\ nextId = 1
  /\ now = 0
  /\ req = [r \in Reqs |-> IdleReq]
  /\ ops = 0
  /\ balance0 = [u \in Users |-> profiles[u].balance]
  /\ serial = TRUE
  /\ ChatInit

\* A response ends the request: its locals stay readable in the slot until
\* the next store call of anyone else (for a request that overlapped another
\* one: until the slot is taken again), then the slot is free again.  A
\* request in progress notes that somebody else's call fell inside it.
Others(a) == {r \in Reqs : r # a /\ Busy(r)}
Interleave(a, rq) ==
  [r \in Reqs |->
     IF r = a THEN rq[r]
     ELSE IF Busy(r) THEN [rq[r] EXCEPT !.alone = FALSE]
     ELSE IF rq[r].alone THEN IdleReq
     ELSE rq[r]]
History(a) == serial' = (serial /\ Others(a) = {})

\* res.status(s).json({code: c, ...})
Respond(q, s, c) ==
  [q EXCEPT !.pc = "done", !.res = [status |-> s, code |-> c, new_balance |-> 0, transaction |-> 0]]

\* Date.now(): the clock never runs backwards; how far it has advanced
\* shows only when it is read
DateNow == now..MaxNow

\* ------------------------------------------------------- middleware/auth.mjs
\* variant: req.user.is_active is not taken from the row
authenticateTokenAlwaysActive(u) ==
  [id |-> u, balance |-> profiles[u].balance, is_active |-> TRUE,
   account_number |-> profiles[u].account_number]

\* authenticateToken: req.user is the profile row read at that moment
authenticateToken(u) ==
  [id |-> u, balance |-> profiles[u].balance, is_active |-> profiles[u].is_active,
   account_number |-> profiles[u].account_number]

\* variant: the row is not looked for
userFoundAlways(u) == TRUE

\* authenticateToken: if (error || !user) return 403 INVALID_TOKEN
userFound(u) == u \in DOMAIN profiles

Next_ == [status |-> 0, code |-> "next"]
Reject(s, c) == [status |-> s, code |-> c]

requireActiveAccount(user) ==
  IF ~user.is_active THEN Reject(403, "ACCOUNT_INACTIVE") ELSE Next_

\* ------------------------------------------------- middleware/validation.mjs
\* isFloat({min: 0.01}) on a whole amount
isFloatMin(amount) == amount >= 1

validateTransaction(body) ==
  IF isFloatMin(body.amount) /\ body.type \in {"credit", "debit"}
  THEN Next_ ELSE Reject(400, "none")

validateWithdrawal(body) ==
  IF isFloatMin(body.amount) THEN Next_ ELSE Reject(400, "VALIDATION_ERROR")

\* variant: the amount is not validated
validateTransferAnyAmount(body) ==
  IF body.to_account_number # NoAccount
  THEN Next_ ELSE Reject(400, "VALIDATION_ERROR")

validateTransfer(body) ==
  IF isFloatMin(body.amount) /\ body.to_account_number # NoAccount
  THEN Next_ ELSE Reject(400, "VALIDATION_ERROR")

validateDeposit(body) ==
  IF isFloatMin(body.amount) THEN Next_ ELSE Reject(400, "VALIDATION_ERROR")

\* first rejection of a middleware chain, else Next_
Chain(checks) ==
  IF \E i \in DOMAIN checks : checks[i].code # "next"
  THEN checks[CHOOSE i \in DOMAIN checks :
                /\ checks[i].code # "next"
                /\ \A j \in 1..(i - 1) : checks[j].code = "next"]
  ELSE Next_

\* ------------------------------------------ controllers/transactionController
\* createTransaction up to its first awaited call (the checks on req.user
\* and req.body)
\* variant: the category is not checked
createTransactionChecksAnyCategory(user, body) ==
  IF ~user.is_active THEN Reject(403, "ACCOUNT_INACTIVE")
  ELSE IF body.type \notin {"credit", "debit"} THEN Reject(400, "INVALID_TRANSACTION_TYPE")
  ELSE IF body.amount <= 0 THEN Reject(400, "INVALID_AMOUNT")
  ELSE Next_

createTransactionChecks(user, body) ==
  IF ~user.is_active THEN Reject(403, "ACCOUNT_INACTIVE")
  ELSE IF body.type \notin {"credit", "debit"} THEN Reject(400, "INVALID_TRANSACTION_TYPE")
  ELSE IF body.amount <= 0 THEN Reject(400, "INVALID_AMOUNT")
  ELSE IF body.transaction_type \notin validTransactionTypes
       THEN Reject(400, "INVALID_TRANSACTION_CATEGORY")
  ELSE Next_

\* const { ..., transaction_type = 'transfer' } = req.body
defaultTransactionType(body) ==
  IF body.transaction_type = "none" THEN [body EXCEPT !.transaction_type = "transfer"] ELSE body

createWithdrawal(body) == [body EXCEPT !.type = "debit", !.transaction_type = "withdrawal"]
createDeposit(body) == [body EXCEPT !.type = "credit", !.transaction_type = "deposit"]
createTransferBody(body) == [body EXCEPT !.type = "debit", !.transaction_type = "transfer"]
createTransferChecks(body) ==
  IF body.to_account_number = NoAccount THEN Reject(400, "MISSING_RECIPIENT") ELSE Next_

\* the lowest free slot takes the next request
FreeSlot(r) == ~Busy(r) /\ \A s \in Reqs : s < r => Busy(s)

\* A request arrives: authenticateToken reads the profile, the route's
\* middleware and the handler's first checks run, and the handler either
\* responds or awaits its first store call (position firstPc).
Begin(r, u, route, body, check, firstPc) ==
  /\ FreeSlot(r)
  /\ ops < MaxOps
  /\ ops' = ops + 1
  /\ LET q == [IdleReq EXCEPT !.route = route, !.op = ops + 1,
                              !.user = authenticateToken(u), !.body = body,
                              !.pre = profiles]
     IN req' = Interleave(r, [req EXCEPT ![r] =
                 IF ~userFound(u) THEN Respond(q, 403, "INVALID_TOKEN")
                 ELSE IF check.code = "next" THEN [q EXCEPT !.pc = firstPc]
                 ELSE Respond(q, check.status, check.code)])
  /\ History(r)
  /\ UNCHANGED <<profiles, transactions, nextId, now, balance0>>
  /\ UNCHANGED chatVars

\* POST /api/transactions with a token whose user id has no row in profiles:
\* router.use(authenticateToken) answers before the route's middleware and
\* the handler are reached, whatever the body
PostUnknownUser(r) ==
  /\ FreeSlot(r)
  /\ ops < MaxOps
  /\ ops' = ops + 1
  /\ \E u \in UnknownUsers, type \in InTypes, amount \in Amounts, tt \in InCategories :
       LET user == [NoUser EXCEPT !.id = u]
           body == [type |-> type, amount |-> amount, to_account_number |-> NoAccount,
                    transaction_type |-> tt]
           q == [IdleReq EXCEPT !.route = "authenticateToken", !.op = ops + 1,
                                !.user = user, !.body = body, !.pre = profiles]
           check == requireActiveAccount(user)
       IN req' = Interleave(r, [req EXCEPT ![r] =
                    IF ~userFound(u) THEN Respond(q, 403, "INVALID_TOKEN")
                    ELSE Respond(q, check.status, check.code)])
  /\ History(r)
  /\ UNCHANGED <<profiles, transactions, nextId, now, balance0>>
  /\ UNCHANGED chatVars

\* POST /api/transactions
PostTransaction(r, u) ==
  \E type \in InTypes, amount \in Amounts, tt \in InCategories \cup {"none"} :
    LET user == authenticateToken(u)
        body == [type |-> type, amount |-> amount, to_account_number |-> NoAccount,
                 transaction_type |-> tt]
    IN Begin(r, u, "createTransaction", defaultTransactionType(body),
             Chain(<<requireActiveAccount(user), validateTransaction(body),
                     createTransactionChecks(user, defaultTransactionType(body))>>),
             "getProfile")

\* POST /api/transactions/withdraw
PostWithdraw(r, u) ==
  \E amount \in Amounts :
    LET user == authenticateToken(u)
        body == [NoBody EXCEPT !.amount = amount]
    IN Begin(r, u, "createWithdrawal", createWithdrawal(body),
             Chain(<<requireActiveAccount(user), validateWithdrawal(body),
                     createTransactionChecks(user, createWithdrawal(body))>>),
             "getProfile")

\* POST /api/transactions/deposit
PostDeposit(r, u) ==
  \E amount \in Amounts :
    LET user == authenticateToken(u)
        body == [NoBody EXCEPT !.amount = amount]
    IN Begin(r, u, "createDeposit", createDeposit(body),
             Chain(<<requireActiveAccount(user), validateDeposit(body),
                     createTransactionChecks(user, createDeposit(body))>>),
             "getProfile")

\* POST /api/transactions/transfer
PostTransactionsTransfer(r, u) ==
  \E amount \in Amounts, to \in ToNumbers :
    LET user == authenticateToken(u)
        body == [NoBody EXCEPT !.amount = amount, !.to_account_number = to]
    IN Begin(r, u, "createTransfer", createTransferBody(body),
             Chain(<<requireActiveAccount(user), validateTransfer(body),
                     createTransferChecks(body),
                     createTransactionChecks(user, createTransferBody(body))>>),
             "getProfile")

\* what a store call of request r leaves in the other variables
Step(r, q) ==
  /\ req' = Interleave(r, [req EXCEPT ![r] = q])
  /\ History(r)
  /\ UNCHANGED <<ops, balance0>>
  /\ UNCHANGED chatVars

Failed(q, call) == [q EXCEPT !.failed = @ \cup {call}]
\* an awaited call rejects: the handler's catch answers 500
Thrown(q, call) == Respond([q EXCEPT !.thrown = call], 500, TRANSACTION_FAILED)
Called(q, kind) ==
  [q EXCEPT !.calls = [@ EXCEPT ![kind] = @ + 1]]

\* the row of table transactions createTransaction inserts
transactionRow(q, id) ==
  [id |-> id, user_id |-> q.user.id, type |-> q.body.type, amount |-> q.body.amount,
   to_account_number |-> q.body.to_account_number,
   transaction_type |-> q.body.transaction_type, reference |-> q.reference,
   status |-> "completed", op |-> q.op]

\* variant: the funds check also refuses a debit of the whole balance
insufficientFundsAtBalance(type, balance, amount) == type = "debit" /\ balance <= amount

\* variant: the funds check is off by one
insufficientFundsOffByOne(type, balance, amount) == type = "debit" /\ balance + 1 < amount

\* if (type === 'debit' && profile.balance < amount)
insufficientFunds(type, balance, amount) == type = "debit" /\ balance < amount

\* variant: the delete matches no row
deleteTransactionNoRow(rows, id) == rows

\* transactions.delete().eq('id', id)
deleteTransaction(rows, id) == {t \in rows : t.id # id}

\* profiles.select('balance').eq('id', req.user.id), the funds check and
\* generateReference
GetProfile(r) ==
  /\ req[r].pc = "getProfile"
  /\ \E out \in Outcomes :
       LET q == req[r]
           balance == profiles[q.user.id].balance
       IN IF out = "ok" /\ ~insufficientFunds(q.body.type, balance, q.body.amount)
          THEN \E dateNow \in DateNow, random \in RandomStrings :
                 /\ now' = dateNow
                 /\ Step(r, [q EXCEPT !.profile = balance, !.pc = "insert",
                       !.reference = generateReference(q.body.transaction_type, dateNow, random)])
          ELSE /\ UNCHANGED now
               /\ Step(r,
                    IF out = "throw" THEN Thrown(q, "getProfile")
                    ELSE IF out = "error"
                         THEN Respond(Failed(q, "getProfile"), 400, ACCOUNT_NOT_FOUND)
                    ELSE Respond([q EXCEPT !.profile = balance], 400, INSUFFICIENT_FUNDS))
  /\ UNCHANGED <<profiles, transactions, nextId>>

\* variant: the insert's error is not looked at and the balance is written
InsertTransactionErrorIgnored(r) ==
  /\ req[r].pc = "insert"
  /\ \E out \in Outcomes :
       LET q == Called(req[r], "insert")
       IN IF out = "ok"
          THEN /\ transactions' = transactions \cup {transactionRow(q, nextId)}
               /\ nextId' = nextId + 1
               /\ Step(r, [q EXCEPT !.transaction = nextId, !.pc = "update"])
          ELSE /\ UNCHANGED <<transactions, nextId>>
               /\ Step(r, IF out = "throw" THEN Thrown(q, "insert")
                          ELSE [Failed(q, "insert") EXCEPT !.pc = "update"])
  /\ UNCHANGED <<profiles, now>>

\* transactions.insert([...]).select().single()
InsertTransaction(r) ==
  /\ req[r].pc = "insert"
  /\ \E out \in Outcomes :
       LET q == Called(req[r], "insert")
       IN IF out = "ok"
          THEN /\ transactions' = transactions \cup {transactionRow(q, nextId)}
               /\ nextId' = nextId + 1
               /\ Step(r, [q EXCEPT !.transaction = nextId, !.pc = "update"])
          ELSE /\ UNCHANGED <<transactions, nextId>>
               /\ Step(r, IF out = "throw" THEN Thrown(q, "insert")
                          ELSE Respond(Failed(q, "insert"), 400, TRANSACTION_FAILED))
  /\ UNCHANGED <<profiles, now>>

\* variant: the balance is read again when it is written
currentBalanceReread(q) == profiles[q.user.id].balance

\* profile.balance, as read by GetProfile
currentBalance(q) == q.profile

\* profiles.update({ balance: newBalance }).eq('id', req.user.id)
UpdateBalance(r) ==
  /\ req[r].pc = "update"
  /\ \E out \in Outcomes :
       LET q == Called(req[r], "update")
           newBalance == calculateNewBalance(currentBalance(q), q.body.amount, q.body.type)
       IN IF out = "ok"
          THEN /\ profiles' = [profiles EXCEPT ![q.user.id].balance = newBalance]
               /\ Step(r, [Respond(q, 201, "none") EXCEPT !.res.new_balance = newBalance,
                                                           !.res.transaction = q.transaction])
          ELSE /\ UNCHANGED profiles
               /\ Step(r, IF out = "throw" THEN Thrown(q, "update")
                          ELSE [Failed(q, "update") EXCEPT !.pc = "rollbackTransaction"])
  /\ UNCHANGED <<transactions, nextId, now>>

\* transactions.delete().eq('id', transaction.id): its result is not read
RollbackTransaction(r) ==
  /\ req[r].pc = "rollbackTransaction"
  /\ \E out \in Outcomes :
       LET q == [Called(req[r], "delete") EXCEPT !.issued = Append(@, "delete")]
       IN /\ transactions' = IF out = "ok"
                             THEN deleteTransaction(transactions, q.transaction)
                             ELSE transactions
          /\ Step(r, IF out = "throw" THEN Thrown(q, "delete")
                     ELSE IF out = "error"
                          THEN Respond(Failed(q, "delete"), 400, TRANSACTION_FAILED)
                     ELSE Respond(q, 400, TRANSACTION_FAILED))
  /\ UNCHANGED <<profiles, nextId, now>>

\* -------------------------------------------- controllers/accountController
\* transfer up to its first awaited call
transferChecks(user, body) ==
  IF ~user.is_active THEN Reject(403, "ACCOUNT_INACTIVE")
  ELSE IF body.amount <= 0 THEN Reject(400, "INVALID_AMOUNT")
  ELSE Next_

\* POST /api/accounts/transfer
PostAccountsTransfer(r, u) ==
  \E amount \in Amounts, to \in ToNumbers :
    LET user == authenticateToken(u)
        body == [NoBody EXCEPT !.amount = amount, !.to_account_number = to]
    IN Begin(r, u, "transfer", body,
             Chain(<<requireActiveAccount(user), validateTransfer(body),
                     transferChecks(user, body)>>),
             "getRecipient")

\* the rows of table transactions transfer inserts: neither carries a
\* reference or a transaction_type
debitRow(q, id) ==
  [id |-> id, user_id |-> q.user.id, type |-> "debit", amount |-> q.body.amount,
   to_account_number |-> q.body.to_account_number,
   transaction_type |-> "none", reference |-> NoReference,
   status |-> "completed", op |-> q.op]

creditRow(q, id) ==
  [id |-> id, user_id |-> q.recipient.id, type |-> "credit", amount |-> q.body.amount,
   to_account_number |-> q.senderProfile.account_number,
   transaction_type |-> "none", reference |-> NoReference,
   status |-> "completed", op |-> q.op]

\* the balances transfer writes
\* variant: the sender's balance is written and returned without the debit
senderBalanceUndebited(q) == q.senderProfile.balance
senderBalance(q) == q.senderProfile.balance - q.body.amount
\* variant: the recipient's balance is written back without the amount
recipientBalanceUncredited(q) == q.recipient.balance
recipientBalance(q) == q.recipient.balance + q.body.amount
\* variant: the compensation writes the debited balance again
restoredBalanceDebited(q) == q.senderProfile.balance - q.body.amount
restoredBalance(q) == q.senderProfile.balance

\* the compensating calls transfer issues after a failed step, in order
rollbackCredit == <<"deleteDebit">>
\* variant: a failed sender update deletes the debit row only
rollbackSenderDebitOnly == <<"deleteDebit">>
rollbackSender == <<"deleteDebit", "deleteCredit">>
rollbackRecipient == <<"deleteDebit", "deleteCredit", "restoreSender">>

\* profiles.select(...).eq('account_number', to_account_number).single()
GetRecipient(r) ==
  /\ req[r].pc = "getRecipient"
  /\ \E out \in Outcomes :
       LET q == req[r]
           found == {u \in Users : profiles[u].account_number = q.body.to_account_number}
       IN \/ /\ out = "throw"
             /\ Step(r, Thrown(q, "getRecipient"))
          \/ /\ out = "error" \/ found = {}
             /\ out # "throw"
             /\ Step(r, Respond(Failed(q, "getRecipient"), 400, ACCOUNT_NOT_FOUND))
          \/ /\ out = "ok"
             /\ \E u \in found :
                  LET recipient == [id |-> u, balance |-> profiles[u].balance,
                                    is_active |-> profiles[u].is_active]
                      q1 == [q EXCEPT !.recipient = recipient]
                  IN Step(r,
                       IF ~recipient.is_active THEN Respond(q1, 400, "RECIPIENT_INACTIVE")
                       ELSE IF recipient.id = q.user.id THEN Respond(q1, 400, "SELF_TRANSFER")
                       ELSE [q1 EXCEPT !.pc = "getSender"])
  /\ UNCHANGED <<profiles, transactions, nextId, now>>

\* profiles.select('balance, account_number').eq('id', req.user.id).single()
GetSender(r) ==
  /\ req[r].pc = "getSender"
  /\ \E out \in Outcomes :
       LET q == req[r]
           senderProfile == [balance |-> profiles[q.user.id].balance,
                             account_number |-> profiles[q.user.id].account_number]
           q1 == [q EXCEPT !.senderProfile = senderProfile]
       IN Step(r,
            IF out = "throw" THEN Thrown(q, "getSender")
            ELSE IF out = "error" THEN Respond(Failed(q, "getSender"), 400, ACCOUNT_NOT_FOUND)
            ELSE IF senderProfile.balance < q.body.amount
                 THEN Respond(q1, 400, INSUFFICIENT_FUNDS)
            ELSE [q1 EXCEPT !.pc = "insertDebit"])
  /\ UNCHANGED <<profiles, transactions, nextId, now>>

InsertDebit(r) ==
  /\ req[r].pc = "insertDebit"
  /\ \E out \in Outcomes :
       LET q == Called(req[r], "insert")
       IN IF out = "ok"
          THEN /\ transactions' = transactions \cup {debitRow(q, nextId)}
               /\ nextId' = nextId + 1
               /\ Step(r, [q EXCEPT !.transaction = nextId, !.pc = "insertCredit"])
          ELSE /\ UNCHANGED <<transactions, nextId>>
               /\ Step(r, IF out = "throw" THEN Thrown(q, "insertDebit")
                          ELSE Respond(Failed(q, "insertDebit"), 400, TRANSACTION_FAILED))
  /\ UNCHANGED <<profiles, now>>

\* variant: the balances are written without the credit row being inserted
InsertCreditSkipped(r) ==
  /\ req[r].pc = "insertCredit"
  /\ Step(r, [req[r] EXCEPT !.pc = "updateSender"])
  /\ UNCHANGED <<profiles, transactions, nextId, now>>

InsertCredit(r) ==
  /\ req[r].pc = "insertCredit"
  /\ \E out \in Outcomes :
       LET q == Called(req[r], "insert")
       IN IF out = "ok"
          THEN /\ transactions' = transactions \cup {creditRow(q, nextId)}
               /\ nextId' = nextId + 1
               /\ Step(r, [q EXCEPT !.creditTransaction = nextId, !.pc = "updateSender"])
          ELSE /\ UNCHANGED <<transactions, nextId>>
               /\ Step(r, IF out = "throw" THEN Thrown(q, "insertCredit")
                          ELSE [Failed(q, "insertCredit") EXCEPT
                                  !.pc = "rollback", !.undo = rollbackCredit])
  /\ UNCHANGED <<profiles, now>>

UpdateSender(r) ==
  /\ req[r].pc = "updateSender"
  /\ \E out \in Outcomes :
       LET q == Called(req[r], "update")
       IN IF out = "ok"
          THEN /\ profiles' = [profiles EXCEPT ![q.user.id].balance = senderBalance(q)]
               /\ Step(r, [q EXCEPT !.pc = "updateRecipient"])
          ELSE /\ UNCHANGED profiles
               /\ Step(r, IF out = "throw" THEN Thrown(q, "updateSender")
                          ELSE [Failed(q, "updateSender") EXCEPT
                                  !.pc = "rollback", !.undo = rollbackSender])
  /\ UNCHANGED <<transactions, nextId, now>>

UpdateRecipient(r) ==
  /\ req[r].pc = "updateRecipient"
  /\ \E out \in Outcomes :
       LET q == Called(req[r], "update")
       IN IF out = "ok"
          THEN /\ profiles' = [profiles EXCEPT ![q.recipient.id].balance = recipientBalance(q)]
               /\ Step(r, [Respond(q, 200, "none") EXCEPT !.res.new_balance = senderBalance(q),
                                                           !.res.transaction = q.transaction])
          ELSE /\ UNCHANGED profiles
               /\ Step(r, IF out = "throw" THEN Thrown(q, "updateRecipient")
                          ELSE [Failed(q, "updateRecipient") EXCEPT
                                  !.pc = "rollback", !.undo = rollbackRecipient])
  /\ UNCHANGED <<transactions, nextId, now>>

\* the next compensating call of a failed transfer; its result is not read.
\* After the last one the handler answers 400.
TransferRollback(r) ==
  /\ req[r].pc = "rollback"
  /\ req[r].undo # <<>>
  /\ \E out \in Outcomes :
       LET call == Head(req[r].undo)
           q == [Called(req[r], IF call = "restoreSender" THEN "update" ELSE "delete")
                   EXCEPT !.issued = Append(@, call)]
           rest == [q EXCEPT !.undo = Tail(@)]
           deleted == IF call = "deleteDebit" THEN q.transaction ELSE q.creditTransaction
       IN /\ transactions' = IF out = "ok" /\ call # "restoreSender"
                             THEN deleteTransaction(transactions, deleted)
                             ELSE transactions
          /\ profiles' = IF out = "ok" /\ call = "restoreSender"
                         THEN [profiles EXCEPT ![q.user.id].balance = restoredBalance(q)]
                         ELSE profiles
          /\ Step(r, LET q1 == IF out = "error" THEN Failed(rest, call) ELSE rest
                     IN IF out = "throw" THEN Thrown(q, call)
                        ELSE IF q1.undo = <<>> THEN Respond(q1, 400, TRANSACTION_FAILED)
                        ELSE q1)
  /\ UNCHANGED <<nextId, now>>

transfer(r) ==
  \/ \E u \in Users : PostAccountsTransfer(r, u)
  \/ GetRecipient(r)
  \/ GetSender(r)
  \/ InsertDebit(r)
  \/ InsertCredit(r)
  \/ UpdateSender(r)
  \/ UpdateRecipient(r)
  \/ TransferRollback(r)

\* ------------------------------------------------------------ routes/admin.mjs
\* POST /admin/users/:userId/balance: read the balance, compute, write it
adminNewBalance(current, balance, operation) ==
  IF operation = "add" THEN current + balance
  ELSE IF operation = "subtract"
       THEN (IF current - balance > 0 THEN current - balance ELSE 0)
  ELSE balance

AdminOperations == {"set", "add", "subtract"}

AdminBalance(u) ==
  /\ ops < MaxOps
  /\ ops' = ops + 1
  /\ \E balance \in Amounts, operation \in AdminOperations,
        out \in {"ok", "fetchError", "updateError"} :
       profiles' = IF out = "ok"
                   THEN [profiles EXCEPT ![u].balance =
                           adminNewBalance(profiles[u].balance, balance, operation)]
                   ELSE profiles
  /\ req' = Interleave(0, req)
  /\ History(0)
  /\ UNCHANGED <<transactions, nextId, now, balance0>>
  /\ UNCHANGED chatVars

\* `RS${Date.now().toString().slice(-8)}`: a number outside those signup gave
\* (ToNumbers), one per millisecond
adminAccountNumber(dateNow) == Cardinality(ToNumbers) + dateNow

\* what an admin call leaves in the other variables
AdminStep ==
  /\ ops < MaxOps
  /\ ops' = ops + 1
  /\ req' = Interleave(0, req)
  /\ History(0)
  /\ UNCHANGED <<transactions, nextId, balance0>>
  /\ UNCHANGED chatVars

\* POST /admin/users/:userId/activate: one update of is_active, account_number
\* and balance; profiles.account_number is UNIQUE, so the update fails when
\* another profile has the number
AdminActivate(u) ==
  /\ AdminStep
  /\ \E initial_balance \in Amounts, dateNow \in DateNow, out \in {"ok", "error"} :
       LET account_number == adminAccountNumber(dateNow)
           taken == \E v \in Users \ {u} : profiles[v].account_number = account_number
       IN /\ now' = dateNow
          /\ profiles' = IF out = "ok" /\ ~taken
                         THEN [profiles EXCEPT ![u] =
                                 [balance |-> initial_balance, is_active |-> TRUE,
                                  account_number |-> account_number]]
                         ELSE profiles

\* POST /admin/users/:userId/deactivate
AdminDeactivate(u) ==
  /\ AdminStep
  /\ \E out \in {"ok", "error"} :
       profiles' = IF out = "ok" THEN [profiles EXCEPT ![u].is_active = FALSE]
                   ELSE profiles
  /\ UNCHANGED now

\* PATCH /api/auth/activate/:userId (authController.activateAccount), behind
\* authenticateToken only: any user's token will do
activateAccount(u) ==
  /\ AdminStep
  /\ \E caller \in Users, out \in {"ok", "error"} :
       profiles' = IF out = "ok" THEN [profiles EXCEPT ![u].is_active = TRUE]
                   ELSE profiles
  /\ UNCHANGED now

createTransaction(r) ==
  \/ PostUnknownUser(r)
  \/ \E u \in Users : PostTransaction(r, u)
  \/ \E u \in Users : PostWithdraw(r, u)
  \/ \E u \in Users : PostDeposit(r, u)
  \/ \E u \in Users : PostTransactionsTransfer(r, u)
  \/ GetProfile(r)
  \/ InsertTransaction(r)
  \/ UpdateBalance(r)
  \/ RollbackTransaction(r)

Quiet == \A r \in Reqs : ~Busy(r)

Next ==
  \/ \E r \in Reqs : createTransaction(r)
  \/ \E r \in Reqs : transfer(r)
  \/ \E u \in Users : AdminBalance(u)
  \/ \E u \in Users : AdminActivate(u)
  \/ \E u \in Users : AdminDeactivate(u)
  \/ \E u \in Users : activateAccount(u)

Spec == Init /\ [][Next]_vars

\* Serial histories: a request arrives only when no other is in progress.
Arrive(r) ==
  \/ PostUnknownUser(r)
  \/ \E u \in Users : PostTransaction(r, u)
  \/ \E u \in Users : PostWithdraw(r, u)
  \/ \E u \in Users : PostDeposit(r, u)
  \/ \E u \in Users : PostTransactionsTransfer(r, u)
  \/ \E u \in Users : PostAccountsTransfer(r, u)

Proceed(r) ==
  \/ GetProfile(r)
  \/ InsertTransaction(r)
  \/ UpdateBalance(r)
  \/ RollbackTransaction(r)
  \/ GetRecipient(r)
  \/ GetSender(r)
  \/ InsertDebit(r)
  \/ InsertCredit(r)
  \/ UpdateSender(r)
  \/ UpdateRecipient(r)
  \/ TransferRollback(r)

\* Racing requests: requests arrive and proceed in any interleaving, admin
\* calls fall between their store calls, and every store call of a request
\* succeeds (what failed calls do is the subject of the serial histories).
Succeeds(r) == req'[r].failed = {} /\ req'[r].thrown = "none"

NextRace ==
  \/ \E r \in Reqs : Arrive(r)
  \/ \E r \in Reqs : GetProfile(r) /\ Succeeds(r)
  \/ \E r \in Reqs : InsertTransaction(r) /\ Succeeds(r)
  \/ \E r \in Reqs : UpdateBalance(r) /\ Succeeds(r)
  \/ \E r \in Reqs : GetRecipient(r) /\ Succeeds(r)
  \/ \E r \in Reqs : GetSender(r) /\ Succeeds(r)
  \/ \E r \in Reqs : InsertDebit(r) /\ Succeeds(r)
  \/ \E r \in Reqs : InsertCredit(r) /\ Succeeds(r)
  \/ \E r \in Reqs : UpdateSender(r) /\ Succeeds(r)
  \/ \E r \in Reqs : UpdateRecipient(r) /\ Succeeds(r)
  \/ \E u \in Users : AdminBalance(u)
  \/ \E u \in Users : AdminActivate(u)
  \/ \E u \in Users : AdminDeactivate(u)
  \/ \E u \in Users : activateAccount(u)

SpecRace == Init /\ [][NextRace]_vars

\* Racing requests one of which is compensated: as above without the admin
\* calls, except that a transfer's recipient balance update may return an
\* error, after which the transfer's three compensating calls are made (and
\* succeed).
Compensates(r) == req'[r].failed \subseteq {"updateRecipient"} /\ req'[r].thrown = "none"

NextUndo ==
  \/ \E r \in Reqs : Arrive(r)
  \/ \E r \in Reqs : GetProfile(r) /\ Compensates(r)
  \/ \E r \in Reqs : InsertTransaction(r) /\ Compensates(r)
  \/ \E r \in Reqs : UpdateBalance(r) /\ Compensates(r)
  \/ \E r \in Reqs : GetRecipient(r) /\ Compensates(r)
  \/ \E r \in Reqs : GetSender(r) /\ Compensates(r)
  \/ \E r \in Reqs : InsertDebit(r) /\ Compensates(r)
  \/ \E r \in Reqs : InsertCredit(r) /\ Compensates(r)
  \/ \E r \in Reqs : UpdateSender(r) /\ Compensates(r)
  \/ \E r \in Reqs : UpdateRecipient(r) /\ Compensates(r)
  \/ \E r \in Reqs : TransferRollback(r) /\ Compensates(r)

SpecUndo == Init /\ [][NextUndo]_vars

NextSerial ==
  \/ Quiet /\ \E r \in Reqs : Arrive(r)
  \/ \E r \in Reqs : Proceed(r)
  \/ Quiet /\ \E u \in Users : AdminBalance(u)

SpecSerial == Init /\ [][NextSerial]_vars

\* calculateNewBalance on its own: a call with any balance and amount of
\* -MaxCalc..MaxCalc and any type string, its result kept in res.new_balance.
CalcNumbers == (0 - MaxCalc)..MaxCalc
CalcTypes == InTypes \cup {"Credit", "DEBIT", ""}

InitCalc ==
  /\ \E balance \in [Users -> 0..MaxBalance0], is_active \in [Users -> BOOLEAN] :
       profiles = [u \in Users |->
                     [balance |-> balance[u], is_active |-> is_active[u],
                      account_number |-> AccountNumber(u)]]
  /\ transactions = {}
  /\ nextId = 1
  /\ now = 0
  /\ \E currentBalance_ \in CalcNumbers, amount \in CalcNumbers, type \in CalcTypes :
       req = [r \in Reqs |->
                IF r = 1
                THEN [IdleReq EXCEPT !.route = "calculateNewBalance", !.pc = "calc",
                                     !.profile = currentBalance_,
                                     !.body = [NoBody EXCEPT !.amount = amount,
                                                             !.type = type]]
                ELSE IdleReq]
  /\ ops = 0
  /\ balance0 = [u \in Users |-> profiles[u].balance]
  /\ serial = TRUE
  /\ ChatInit

CalculateNewBalance(r) ==
  /\ req[r].pc = "calc"
  /\ req' = [req EXCEPT ![r].pc = "done",
                        ![r].res.new_balance =
                          calculateNewBalance(req[r].profile, req[r].body.amount,
                                              req[r].body.type)]
  /\ UNCHANGED <<profiles, transactions, nextId, now, ops, balance0, serial>>
  /\ UNCHANGED chatVars

NextCalc == \E r \in Reqs : CalculateNewBalance(r)

SpecCalc == InitCalc /\ [][NextCalc]_vars

\* ------------------------------------------------ controllers/chatController
\* Lengths (after trim) of the strings a chat request carries, and the
\* conversation ids it may name (a conversation's id is the number of the
\* request that created it, a user message's id the number of the request
\* that sent it, a bot message's id that of the message it answers).
SubjectLengths == {0, 5}
MessageLengths == {0, 1}
ConversationIds == 1..MaxChatOps

\* validateConversation, validateMessage: 400 without a code
validateConversation(body) ==
  IF body.subject >= 5 /\ body.initialMessage >= 1 THEN Next_ ELSE Reject(400, "none")
validateMessage(body) ==
  IF body.message >= 1 THEN Next_ ELSE Reject(400, "none")

\* the handlers' own checks before their first awaited call
createConversationChecks(body) ==
  IF body.subject = 0 \/ body.initialMessage = 0
  THEN Reject(400, "MISSING_REQUIRED_FIELDS") ELSE Next_
sendMessageChecks(body) ==
  IF body.message = 0 THEN Reject(400, "MISSING_MESSAGE") ELSE Next_

ChatBusy(c) == chat[c].pc \notin {"idle", "done"}
ChatFree(c) == ~ChatBusy(c) /\ \A d \in ChatReqs : d < c => ChatBusy(d)

ChatRespond(q, s, c) == [q EXCEPT !.pc = "done", !.res = [status |-> s, code |-> c]]
ChatFailed(q, call) == [q EXCEPT !.failed = @ \cup {call}]
\* an awaited call rejects: the handler's catch answers 500 with its code
ChatThrown(q, call, c) == ChatRespond([q EXCEPT !.thrown = call], 500, c)

Bank == <<profiles, transactions, nextId, req, balance0, serial>>

\* A response ends the request: its locals stay readable in the slot until
\* the next step of any other request or timer.
ChatInterleave(c, ch) ==
  [d \in ChatReqs |-> IF d = c \/ ChatBusy(d) THEN ch[d] ELSE IdleChat]

\* A chat request arrives: router.use(authenticateToken), the route's
\* validator and the handler's first checks.
ChatBegin(c, u, route, conversationId, check, firstPc) ==
  /\ ChatFree(c)
  /\ ops < MaxChatOps
  /\ ops' = ops + 1
  /\ LET q == [IdleChat EXCEPT !.route = route, !.user = u, !.message = ops + 1,
                               !.conversationId = conversationId]
     IN chat' = ChatInterleave(c, [chat EXCEPT ![c] =
                   IF ~userFound(u) THEN ChatRespond(q, 403, "INVALID_TOKEN")
                   ELSE IF check.code = "next" THEN [q EXCEPT !.pc = firstPc]
                   ELSE ChatRespond(q, check.status, check.code)])
  /\ UNCHANGED <<chat_conversations, chat_messages, timers, now>>
  /\ UNCHANGED Bank

\* POST /api/chat/conversations
PostConversation(c, u) ==
  \E subject \in SubjectLengths, initialMessage \in MessageLengths :
    LET body == [subject |-> subject, initialMessage |-> initialMessage]
    IN ChatBegin(c, u, "createConversation", 0,
                 Chain(<<validateConversation(body), createConversationChecks(body)>>),
                 "insertConversation")

\* POST /api/chat/conversations/:conversationId/messages
PostMessage(c, u) ==
  \E conversationId \in ConversationIds, message \in MessageLengths :
    LET body == [message |-> message]
    IN ChatBegin(c, u, "sendMessage", conversationId,
                 Chain(<<validateMessage(body), sendMessageChecks(body)>>),
                 "selectConversation")

\* PATCH /api/chat/conversations/:conversationId/close
PatchClose(c, u) ==
  \E conversationId \in ConversationIds :
    ChatBegin(c, u, "closeConversation", conversationId, Next_, "updateStatus")

ChatStep(c, q) ==
  /\ chat' = ChatInterleave(c, [chat EXCEPT ![c] = q])
  /\ UNCHANGED ops
  /\ UNCHANGED Bank

\* rows of the chat tables
conversationRow(id, user_id, dateNow) ==
  [id |-> id, user_id |-> user_id, status |-> "open", last_message_at |-> dateNow]

Conversation(id) == {v \in chat_conversations : v.id = id}

\* history in a message row: the conversation was closed when it was inserted
messageRow(id, conversation_id, sender_type) ==
  [id |-> id, conversation_id |-> conversation_id, sender_type |-> sender_type,
   afterClose |-> \E v \in Conversation(conversation_id) : v.status = "closed"]

\* setTimeout(async () => {...}, 2000)
botTimer(id, conversation_id) ==
  [id |-> id, conversation_id |-> conversation_id, pc |-> "insert"]

\* chat_conversations.update({ last_message_at: ... }).eq('id', id)
touchConversation(rows, id, dateNow) ==
  {IF v.id = id THEN [v EXCEPT !.last_message_at = dateNow] ELSE v : v \in rows}

\* chat_conversations.delete().eq('id', id); chat_messages rows go with it
\* (ON DELETE CASCADE)
deleteConversation(rows, id) == {v \in rows : v.id # id}
cascadeMessages(rows, id) == {m \in rows : m.conversation_id # id}

\* createConversation: chat_conversations.insert([...]).select().single()
InsertConversation(c) ==
  /\ chat[c].pc = "insertConversation"
  /\ \E out \in Outcomes, dateNow \in DateNow :
       LET q == chat[c]
           id == q.message
       IN IF out = "ok"
          THEN /\ chat_conversations' =
                    chat_conversations \cup {conversationRow(id, q.user, dateNow)}
               /\ now' = dateNow
               /\ ChatStep(c, [q EXCEPT !.conversationId = id, !.pc = "insertInitialMessage"])
          ELSE /\ dateNow = now
               /\ UNCHANGED <<chat_conversations, now>>
               /\ ChatStep(c, IF out = "throw"
                              THEN ChatThrown(q, "insertConversation",
                                              "CONVERSATION_CREATION_FAILED")
                              ELSE ChatRespond(ChatFailed(q, "insertConversation"), 400,
                                               "CONVERSATION_CREATION_FAILED"))
  /\ UNCHANGED <<chat_messages, timers>>

\* createConversation: chat_messages.insert([...]).select().single(), then
\* the bot reply is scheduled and 201 is answered
InsertInitialMessage(c) ==
  /\ chat[c].pc = "insertInitialMessage"
  /\ \E out \in Outcomes :
       LET q == chat[c]
       IN IF out = "ok"
          THEN /\ chat_messages' =
                    chat_messages \cup {messageRow(q.message, q.conversationId, "user")}
               /\ timers' = timers \cup {botTimer(q.message, q.conversationId)}
               /\ ChatStep(c, ChatRespond(q, 201, "none"))
          ELSE /\ UNCHANGED <<chat_messages, timers>>
               /\ ChatStep(c, IF out = "throw"
                              THEN ChatThrown(q, "insertInitialMessage",
                                              "CONVERSATION_CREATION_FAILED")
                              ELSE [ChatFailed(q, "insertInitialMessage") EXCEPT
                                      !.pc = "rollbackConversation"])
  /\ UNCHANGED <<chat_conversations, now>>

\* createConversation: chat_conversations.delete().eq('id', conversation.id);
\* its result is not read
RollbackConversation(c) ==
  /\ chat[c].pc = "rollbackConversation"
  /\ \E out \in Outcomes :
       LET q == chat[c]
       IN /\ chat_conversations' = IF out = "ok"
                                   THEN deleteConversation(chat_conversations, q.conversationId)
                                   ELSE chat_conversations
          /\ chat_messages' = IF out = "ok"
                              THEN cascadeMessages(chat_messages, q.conversationId)
                              ELSE chat_messages
          /\ ChatStep(c, IF out = "throw"
                         THEN ChatThrown(q, "deleteConversation",
                                         "CONVERSATION_CREATION_FAILED")
                         ELSE ChatRespond(IF out = "error"
                                          THEN ChatFailed(q, "deleteConversation") ELSE q,
                                          400, "MESSAGE_CREATION_FAILED"))
  /\ UNCHANGED <<timers, now>>

createConversation_(c) ==
  \/ \E u \in Users \cup UnknownUsers : PostConversation(c, u)
  \/ InsertConversation(c)
  \/ InsertInitialMessage(c)
  \/ RollbackConversation(c)

\* sendMessage: chat_conversations.select('id, status').eq('id', ...)
\* .eq('user_id', req.user.id).single() and the check of the status
conversationClosed(conversation) == conversation.status = "closed"

SelectConversation(c) ==
  /\ chat[c].pc = "selectConversation"
  /\ \E out \in Outcomes :
       LET q == chat[c]
           found == {v \in Conversation(q.conversationId) : v.user_id = q.user}
       IN \/ /\ out = "throw"
             /\ ChatStep(c, ChatThrown(q, "selectConversation", "MESSAGE_SEND_FAILED"))
          \/ /\ out = "error" \/ (out = "ok" /\ found = {})
             /\ ChatStep(c, ChatRespond(IF out = "error"
                                        THEN ChatFailed(q, "selectConversation") ELSE q,
                                        404, "CONVERSATION_NOT_FOUND"))
          \/ /\ out = "ok"
             /\ \E conversation \in found :
                  ChatStep(c, IF conversationClosed(conversation)
                              THEN ChatRespond(q, 400, "CONVERSATION_CLOSED")
                              ELSE [q EXCEPT !.pc = "insertMessage"])
  /\ UNCHANGED <<chat_conversations, chat_messages, timers, now>>

\* sendMessage: chat_messages.insert([...]).select().single(); the store
\* refuses a row whose conversation does not exist (REFERENCES)
InsertMessage(c) ==
  /\ chat[c].pc = "insertMessage"
  /\ \E out \in Outcomes :
       LET q == chat[c]
       IN IF out = "ok" /\ Conversation(q.conversationId) # {}
          THEN /\ chat_messages' =
                    chat_messages \cup {messageRow(q.message, q.conversationId, "user")}
               /\ ChatStep(c, [q EXCEPT !.pc = "updateLastMessage"])
          ELSE /\ UNCHANGED chat_messages
               /\ ChatStep(c, IF out = "throw"
                              THEN ChatThrown(q, "insertMessage", "MESSAGE_SEND_FAILED")
                              ELSE ChatRespond(ChatFailed(q, "insertMessage"), 400,
                                               "MESSAGE_SEND_FAILED"))
  /\ UNCHANGED <<chat_conversations, timers, now>>

\* sendMessage: the update of last_message_at (its result is not read), then
\* the bot reply is scheduled and 201 is answered
UpdateLastMessage(c) ==
  /\ chat[c].pc = "updateLastMessage"
  /\ \E out \in Outcomes, dateNow \in DateNow :
       LET q == chat[c]
       IN /\ now' = dateNow
          /\ chat_conversations' =
               IF out = "ok" THEN touchConversation(chat_conversations, q.conversationId, dateNow)
               ELSE chat_conversations
          /\ timers' = IF out = "throw" THEN timers
                       ELSE timers \cup {botTimer(q.message, q.conversationId)}
          /\ ChatStep(c, IF out = "throw"
                         THEN ChatThrown(q, "updateLastMessage", "MESSAGE_SEND_FAILED")
                         ELSE ChatRespond(IF out = "error"
                                          THEN ChatFailed(q, "updateLastMessage") ELSE q,
                                          201, "none"))
  /\ UNCHANGED chat_messages

sendMessage(c) ==
  \/ \E u \in Users \cup UnknownUsers : PostMessage(c, u)
  \/ SelectConversation(c)
  \/ InsertMessage(c)
  \/ UpdateLastMessage(c)

\* closeConversation: chat_conversations.update({ status: 'closed' })
\* .eq('id', ...).eq('user_id', req.user.id).select().single()
UpdateStatus(c) ==
  /\ chat[c].pc = "updateStatus"
  /\ \E out \in Outcomes :
       LET q == chat[c]
           found == {v \in Conversation(q.conversationId) : v.user_id = q.user}
       IN IF out = "ok" /\ found # {}
          THEN /\ chat_conversations' =
                    {IF v \in found THEN [v EXCEPT !.status = "closed"] ELSE v :
                       v \in chat_conversations}
               /\ ChatStep(c, ChatRespond(q, 200, "none"))
          ELSE /\ UNCHANGED chat_conversations
               /\ ChatStep(c, IF out = "throw"
                              THEN ChatThrown(q, "updateStatus", "CONVERSATION_CLOSE_FAILED")
                              ELSE ChatRespond(ChatFailed(q, "updateStatus"), 400,
                                               "CONVERSATION_CLOSE_FAILED"))
  /\ UNCHANGED <<chat_messages, timers, now>>

closeConversation(c) ==
  \/ \E u \in Users \cup UnknownUsers : PatchClose(c, u)
  \/ UpdateStatus(c)

\* the timer's callback: chat_messages.insert([... sender_type: 'bot' ...]);
\* nothing is read before it and its result is not read.  A rejected call
\* ends the callback.
BotInsert(t) ==
  /\ t \in timers /\ t.pc = "insert"
  /\ \E out \in Outcomes :
       /\ chat_messages' =
            IF out = "ok" /\ Conversation(t.conversation_id) # {}
            THEN chat_messages \cup {messageRow(t.id, t.conversation_id, "bot")}
            ELSE chat_messages
       /\ timers' = IF out = "throw" THEN timers \ {t}
                    ELSE (timers \ {t}) \cup {[t EXCEPT !.pc = "update"]}
  /\ chat' = ChatInterleave(0, chat)
  /\ UNCHANGED <<chat_conversations, now, ops>>
  /\ UNCHANGED Bank

\* the timer's callback: the update of last_message_at, which ends it
BotUpdate(t) ==
  /\ t \in timers /\ t.pc = "update"
  /\ \E out \in Outcomes, dateNow \in DateNow :
       /\ now' = dateNow
       /\ chat_conversations' =
            IF out = "ok" THEN touchConversation(chat_conversations, t.conversation_id, dateNow)
            ELSE chat_conversations
  /\ timers' = timers \ {t}
  /\ chat' = ChatInterleave(0, chat)
  /\ UNCHANGED <<chat_messages, ops>>
  /\ UNCHANGED Bank

\* Chat requests in any interleaving, with the timers firing at any later
\* moment.
NextChat ==
  \/ \E c \in ChatReqs : createConversation_(c)
  \/ \E c \in ChatReqs : sendMessage(c)
  \/ \E c \in ChatReqs : closeConversation(c)
  \/ \E t \in timers : BotInsert(t)
  \/ \E t \in timers : BotUpdate(t)

\* The chat handlers read of a profile only that it exists, so the chat
\* histories start from one state of the bank.
InitChat ==
  /\ Init
  /\ \A u \in Users : profiles[u].is_active /\ profiles[u].balance = 0

SpecChat == InitChat /\ [][NextChat]_vars

\* ---------------------------------------------------------------- properties
Done(r) == req[r].pc = "done"
MovementRoutes == {"createTransaction", "createWithdrawal", "createDeposit", "createTransfer"}
TransferRoutes == {"transfer", "createTransfer"}
CompensatingCalls == {"delete", "deleteDebit", "deleteCredit", "restoreSender"}

\* the ledger rows request r has inserted and that are still there
RowsOf(r) == {t \in transactions : t.op = req[r].op}

RECURSIVE SumAmounts(_)
SumAmounts(rows) ==
  IF rows = {} THEN 0
  ELSE LET t == CHOOSE t \in rows : TRUE IN t.amount + SumAmounts(rows \ {t})

Completed(u, type) ==
  {t \in transactions : t.user_id = u /\ t.type = type /\ t.status = "completed"}

\* the account a transfer request names as recipient
RecipientOf(r) ==
  {u \in Users : req[r].pre[u].account_number = req[r].body.to_account_number}

\* C1: after any serial history, with no request in progress, every account's
\* balance is its initial balance plus its completed credits minus its
\* completed debits.
C1_BalanceMatchesLedger ==
  (serial /\ Quiet) =>
    \A u \in Users :
      profiles[u].balance =
        balance0[u] + SumAmounts(Completed(u, "credit")) - SumAmounts(Completed(u, "debit"))

\* C2: a transfer request that has returned (either entry point, whatever
\* store calls failed) has left exactly one completed debit on the sender and
\* one completed credit of the same amount on the recipient, or no row at all.
C2_TransferBothOrNeither ==
  \A r \in Reqs :
    (Done(r) /\ req[r].route \in TransferRoutes) =>
      \/ RowsOf(r) = {}
      \/ \E d, c \in RowsOf(r) :
           /\ RowsOf(r) = {d, c}
           /\ d.type = "debit" /\ d.user_id = req[r].user.id
           /\ c.type = "credit" /\ c.user_id \in RecipientOf(r)
           /\ d.status = "completed" /\ c.status = "completed"
           /\ d.amount = req[r].body.amount /\ c.amount = req[r].body.amount

\* C3: when transfer's recipient balance update returns an error and the three
\* compensating calls succeed, both inserted rows are gone, both balances are
\* what they were before the transfer, and the answer is TRANSACTION_FAILED.
RecipientUpdateFailed(r) ==
  /\ Done(r) /\ req[r].route = "transfer" /\ req[r].alone
  /\ req[r].failed = {"updateRecipient"} /\ req[r].thrown = "none"

C3_RecipientUpdateFailureUndone ==
  \A r \in Reqs :
    RecipientUpdateFailed(r) =>
      /\ RowsOf(r) = {}
      /\ profiles[req[r].user.id].balance = req[r].pre[req[r].user.id].balance
      /\ profiles[req[r].recipient.id].balance = req[r].pre[req[r].recipient.id].balance
      /\ req[r].res.status = 400 /\ req[r].res.code = TRANSACTION_FAILED

C3_Witness ==
  \E r \in Reqs :
    /\ RecipientUpdateFailed(r)
    /\ req[r].calls = [insert |-> 2, delete |-> 2, update |-> 3]
    /\ req[r].body.amount > 0

UpdateFailedAndDeleted(r) ==
  /\ Done(r) /\ req[r].route \in MovementRoutes /\ req[r].alone
  /\ req[r].failed = {"update"} /\ req[r].thrown = "none"

C5_CompensationFailureReported ==
  \A r \in Reqs :
    (Done(r) /\ req[r].failed \cap CompensatingCalls # {}) =>
      /\ req[r].res.code = COMPENSATION_FAILED
      /\ req[r].res.code # TRANSACTION_FAILED

\* C6 as stated: a debit of more than the balance always answers
\* INSUFFICIENT_FUNDS and makes no insert, delete or balance write.
Overdraw(r) ==
  /\ Done(r) /\ req[r].route \in MovementRoutes /\ req[r].alone
  /\ req[r].body.type = "debit"
  /\ req[r].body.amount > req[r].pre[req[r].user.id].balance

C6_OverdrawInsufficientFunds ==
  \A r \in Reqs :
    Overdraw(r) =>
      /\ req[r].res.code = INSUFFICIENT_FUNDS
      /\ req[r].calls = NoCalls

\* C6 amended: a debit of more than the balance always fails and makes no
\* insert, delete or balance write; the answer is INSUFFICIENT_FUNDS when the
\* account is active, the body passes the route's validation and category
\* check, and the balance read returns a row.
ReachesFundsCheck(r) ==
  /\ req[r].pre[req[r].user.id].is_active
  /\ req[r].body.amount >= 1
  /\ req[r].body.transaction_type \in validTransactionTypes
  /\ req[r].route = "createTransfer" => req[r].body.to_account_number # NoAccount
  /\ "getProfile" \notin req[r].failed /\ req[r].thrown = "none"

C6_OverdrawFailsWithoutWrites ==
  \A r \in Reqs :
    Overdraw(r) =>
      /\ req[r].res.status \in {400, 403, 500}
      /\ req[r].calls = NoCalls
      /\ RowsOf(r) = {}
      /\ profiles = req[r].pre
      /\ ReachesFundsCheck(r) =>
           (req[r].res.status = 400 /\ req[r].res.code = INSUFFICIENT_FUNDS)

C6_Witness ==
  \E r \in Reqs :
    /\ Overdraw(r) /\ ReachesFundsCheck(r)
    /\ req[r].res.code = INSUFFICIENT_FUNDS
    /\ req[r].profile < req[r].body.amount

\* C7: a movement request on an account whose active flag is false answers
\* ACCOUNT_INACTIVE and makes no insert and no balance write.
InactiveMovement(r) ==
  /\ Done(r) /\ req[r].route \in MovementRoutes
  /\ ~req[r].pre[req[r].user.id].is_active

C7_InactiveAccountRejected ==
  \A r \in Reqs :
    InactiveMovement(r) =>
      /\ req[r].res.status = 403 /\ req[r].res.code = "ACCOUNT_INACTIVE"
      /\ req[r].calls = NoCalls
      /\ RowsOf(r) = {}

C7_Witness ==
  \E r \in Reqs :
    /\ InactiveMovement(r)
    /\ req[r].body.type = "credit" /\ req[r].body.amount >= 1
    /\ req[r].res.code = "ACCOUNT_INACTIVE"

\* C8: a successful transfer of m with nothing interleaved leaves exactly one
\* new debit of m on the sender and one new credit of m on the recipient, the
\* sender's balance lower by m and the recipient's higher by m.
TransferSucceeded(r) ==
  /\ Done(r) /\ req[r].route = "transfer" /\ req[r].alone
  /\ req[r].res.status = 200

C8_SuccessfulTransferMovesAmount ==
  \A r \in Reqs :
    TransferSucceeded(r) =>
      LET m == req[r].body.amount
          X == req[r].user.id
          Y == req[r].recipient.id
      IN /\ \E d, c \in RowsOf(r) :
              /\ RowsOf(r) = {d, c}
              /\ d.user_id = X /\ d.type = "debit" /\ d.amount = m
              /\ c.user_id = Y /\ c.type = "credit" /\ c.amount = m
         /\ X # Y
         /\ profiles[X].balance = req[r].pre[X].balance - m
         /\ profiles[Y].balance = req[r].pre[Y].balance + m

C8_Witness ==
  \E r \in Reqs :
    /\ TransferSucceeded(r)
    /\ req[r].body.amount = 1
    /\ req[r].pre[req[r].user.id].balance = 1
    /\ profiles[req[r].user.id].balance = 0
    /\ Cardinality(RowsOf(r)) = 2

\* C9: every row a transfer creates carries a reference with prefix TRA.
C9_TransferReferencePrefix ==
  \A r \in Reqs :
    req[r].route \in TransferRoutes =>
      \A t \in RowsOf(r) : substring(t.reference, 0, 3) = <<"T", "R", "A">>

\* C10: no two ledger rows carry the same reference.
C10_ReferencesUnique ==
  \A t1, t2 \in transactions :
    (t1.id # t2.id /\ t1.reference # NoReference) => t1.reference # t2.reference

\* C11: when an insert of createTransaction is rejected while a row with the
\* same reference is in the ledger, the handler generates a new reference and
\* inserts again; it does not answer with the store's error.
InsertCollided(r) ==
  /\ Done(r) /\ req[r].route \in MovementRoutes
  /\ "insert" \in req[r].failed
  /\ \E t \in transactions : t.reference = req[r].reference

C11_CollisionRetried ==
  \A r \in Reqs :
    InsertCollided(r) =>
      /\ req[r].calls.insert >= 2
      /\ req[r].res.code # TRANSACTION_FAILED

\* the preconditions of a transfer, on the store as it was when the request
\* began
SenderInactive(r) == ~req[r].pre[req[r].user.id].is_active
NonPositiveAmount(r) == req[r].body.amount <= 0
RecipientMissing(r) == RecipientOf(r) = {}
RecipientInactive(r) == \E u \in RecipientOf(r) : ~req[r].pre[u].is_active
SelfTransfer(r) == req[r].user.id \in RecipientOf(r)
SenderShort(r) == req[r].pre[req[r].user.id].balance < req[r].body.amount

PreconditionViolated(r) ==
  \/ SenderInactive(r) \/ NonPositiveAmount(r) \/ RecipientMissing(r)
  \/ RecipientInactive(r) \/ SelfTransfer(r) \/ SenderShort(r)

\* a returned transfer, nothing interleaved, a precondition violated
PreconditionFailure(r) ==
  /\ Done(r) /\ req[r].route = "transfer" /\ req[r].alone
  /\ PreconditionViolated(r)

\* the codes the claim names for the preconditions that are violated
NamedCodes(r) ==
  {c \in {"ACCOUNT_INACTIVE", "INVALID_AMOUNT", ACCOUNT_NOT_FOUND, "RECIPIENT_INACTIVE",
          "SELF_TRANSFER", INSUFFICIENT_FUNDS} :
     \/ c = "ACCOUNT_INACTIVE" /\ SenderInactive(r)
     \/ c = "INVALID_AMOUNT" /\ NonPositiveAmount(r)
     \/ c = ACCOUNT_NOT_FOUND /\ RecipientMissing(r)
     \/ c = "RECIPIENT_INACTIVE" /\ RecipientInactive(r)
     \/ c = "SELF_TRANSFER" /\ SelfTransfer(r)
     \/ c = INSUFFICIENT_FUNDS /\ SenderShort(r)}

FirstFailedCheck(r) ==
  IF SenderInactive(r) THEN Reject(403, "ACCOUNT_INACTIVE")
  ELSE IF NonPositiveAmount(r) \/ req[r].body.to_account_number = NoAccount
       THEN Reject(400, "VALIDATION_ERROR")
  ELSE IF RecipientMissing(r) THEN Reject(400, ACCOUNT_NOT_FOUND)
  ELSE IF RecipientInactive(r) THEN Reject(400, "RECIPIENT_INACTIVE")
  ELSE IF SelfTransfer(r) THEN Reject(400, "SELF_TRANSFER")
  ELSE Reject(400, INSUFFICIENT_FUNDS)

CompensatedSteps == {"insertCredit", "updateSender", "updateRecipient"}
ReverseOrder(step) ==
  CASE step = "insertCredit" -> <<"deleteDebit">>
    [] step = "updateSender" -> <<"deleteCredit", "deleteDebit">>
    [] step = "updateRecipient" -> <<"restoreSender", "deleteCredit", "deleteDebit">>

\* C13: when a step of transfer returns an error, the compensating calls for
\* the earlier steps have all been issued when the failure is returned, in the
\* reverse of the order of those steps: restore of the sender's balance, then
\* delete of the credit row, then delete of the debit row.
C13_CompensationInReverseOrder ==
  \A r \in Reqs :
    \A step \in CompensatedSteps :
      (Done(r) /\ req[r].route = "transfer" /\ req[r].thrown = "none"
         /\ step \in req[r].failed) =>
        req[r].issued = ReverseOrder(step)

\* C16: when a balance update of createTransaction or transfer rejects (throws
\* or times out) instead of returning an error, the rows the request inserted
\* are deleted before the failure is returned.
BalanceUpdates == {"update", "updateSender", "updateRecipient"}
C16_ThrownUpdateCompensated ==
  \A r \in Reqs :
    (Done(r) /\ req[r].thrown \in BalanceUpdates) =>
      /\ RowsOf(r) = {}
      /\ req[r].calls.delete >= 1

\* C14: a request that has issued a balance write has had all its ledger
\* inserts succeed before: one row for createTransaction, the debit and the
\* credit row for transfer.
C14_InsertsBeforeBalanceWrites ==
  \A r \in Reqs :
    req[r].calls.update >= 1 =>
      /\ req[r].transaction # 0
      /\ req[r].route = "transfer" => req[r].creditTransaction # 0
      /\ req[r].calls.insert = (IF req[r].route = "transfer" THEN 2 ELSE 1)
      /\ "insert" \notin req[r].failed /\ "insertDebit" \notin req[r].failed
      /\ "insertCredit" \notin req[r].failed

\* a transfer between its two balance writes: both rows are in the ledger
C14_Witness ==
  \E r \in Reqs :
    /\ req[r].pc = "updateRecipient" /\ req[r].calls.update = 1
    /\ req[r].body.amount >= 1
    /\ profiles[req[r].user.id].balance = req[r].pre[req[r].user.id].balance - req[r].body.amount
    /\ Cardinality(RowsOf(r)) = 2

\* request r has issued the balance update for the account of its row t:
\* transfer's first update is the sender's (the debit row's account), its
\* second the recipient's (the credit row's account)
UpdateIssuedFor(r, t) ==
  IF req[r].route = "transfer" /\ t.type = "credit"
  THEN req[r].calls.update >= 2
  ELSE req[r].calls.update >= 1

\* C17: with no request in progress, every completed row belongs to a request
\* that issued the balance update for that row's account.
C17_CompletedRowsHaveUpdateAttempted ==
  Quiet =>
    \A r \in Reqs :
      \A t \in RowsOf(r) :
        t.status = "completed" => UpdateIssuedFor(r, t)

\* request r issues a balance update in this step
IssuesUpdate(r) ==
  /\ req'[r].op = req[r].op
  /\ req'[r].calls.update = req[r].calls.update + 1

IssuesInsert(r) ==
  /\ req'[r].op = req[r].op
  /\ req'[r].calls.insert = req[r].calls.insert + 1

\* C15: a balance changes only in a step in which a money-movement request
\* issues a balance update (or the compensating restore); no admin call and
\* no activation writes a balance.
C15_BalanceWrittenOnlyByMovements ==
  [][\A u \in Users :
       profiles'[u].balance # profiles[u].balance =>
         \E r \in Reqs : IssuesUpdate(r)]_vars

\* C20: no insert and no balance write is issued for a request of an account
\* whose is_active is false in the store at that moment.
C20_NoWriteForInactiveAccount ==
  [][\A r \in Reqs :
       (IssuesInsert(r) \/ IssuesUpdate(r)) => profiles[req[r].user.id].is_active]_vars

\* a debit that has returned success: a debit of createTransaction (201) or
\* a transfer (200), and the balance of its account it read
DebitSucceeded(r) ==
  /\ Done(r)
  /\ \/ /\ req[r].route \in MovementRoutes /\ req[r].body.type = "debit"
        /\ req[r].res.status = 201
     \/ req[r].route = "transfer" /\ req[r].res.status = 200

BalanceRead(r) ==
  IF req[r].route = "transfer" THEN req[r].senderProfile.balance ELSE req[r].profile

\* the step in which the write of debit r to its account's balance succeeds
DebitWrites(r) ==
  \/ /\ req[r].pc = "update" /\ req[r].body.type = "debit"
     /\ req'[r].pc = "done" /\ req'[r].res.status = 201
  \/ req[r].pc = "updateSender" /\ req'[r].pc = "updateRecipient"

DebitRowOf(r, rows) ==
  {t \in rows : t.op = req[r].op /\ t.type = "debit" /\ t.user_id = req[r].user.id
                  /\ t.status = "completed"}

\* C18: when a debit writes its account's balance while the stored balance is
\* that written by another successful debit which had read the same balance
\* b, the balance becomes b minus the writer's amount alone, and the debit
\* rows of both stay in the ledger as completed.
C18_RacingDebitsLoseAnUpdate ==
  [][\A r, o \in Reqs :
       (/\ r # o /\ DebitWrites(r) /\ DebitSucceeded(o)
        /\ req[r].user.id = req[o].user.id
        /\ BalanceRead(r) = BalanceRead(o)
        /\ profiles[req[o].user.id].balance = BalanceRead(o) - req[o].body.amount) =>
         /\ profiles'[req[r].user.id].balance = BalanceRead(r) - req[r].body.amount
         /\ DebitRowOf(r, transactions') # {}
         /\ DebitRowOf(o, transactions') # {}]_vars

\* two interleaved debits of createTransaction on one account, the only two
\* requests made: both read the initial balance b, both succeeded, and the
\* stored balance is b minus one amount
C18_Witness ==
  \E r, o \in Reqs :
    /\ r # o /\ DebitSucceeded(r) /\ DebitSucceeded(o) /\ ops = 2
    /\ req[r].route \in MovementRoutes /\ req[o].route \in MovementRoutes
    /\ req[r].user.id = req[o].user.id
    /\ BalanceRead(r) = balance0[req[r].user.id]
    /\ BalanceRead(o) = balance0[req[r].user.id]
    /\ req[r].body.amount >= 1 /\ req[o].body.amount >= 1
    /\ profiles[req[r].user.id].balance = balance0[req[r].user.id] - req[r].body.amount
    /\ DebitRowOf(r, transactions) # {} /\ DebitRowOf(o, transactions) # {}

\* two successful debits on one account that read the same balance and
\* together exceed it, with no request made after them
OverdrawnByRace(r, o) ==
  /\ r # o /\ DebitSucceeded(r) /\ DebitSucceeded(o)
  /\ req[r].user.id = req[o].user.id
  /\ BalanceRead(r) = BalanceRead(o)
  /\ BalanceRead(r) >= 0
  /\ req[r].body.amount + req[o].body.amount > BalanceRead(r)
  /\ {req[r].op, req[o].op} = {ops - 1, ops}

\* C19 as stated: debits racing on one account, which read the same
\* non-negative balance and together exceed it, leave the account's stored
\* balance negative.
C19_RacingDebitsGoNegative ==
  \A r, o \in Reqs :
    OverdrawnByRace(r, o) => profiles[req[r].user.id].balance < 0

\* C19 amended: no stored balance is ever negative, whatever the interleaving:
\* a debit that has passed the funds check holds a balance it read that is at
\* least its amount, and what it writes is that balance minus the amount.
C19_BalanceNeverNegative ==
  /\ \A u \in Users : profiles[u].balance >= 0
  /\ \A r \in Reqs :
       /\ (req[r].pc \in {"insert", "update"} /\ req[r].body.type = "debit") =>
            req[r].profile >= req[r].body.amount
       /\ req[r].pc \in {"insertDebit", "insertCredit", "updateSender", "updateRecipient"} =>
            req[r].senderProfile.balance >= req[r].body.amount

\* a debit of createTransaction and a transfer raced on the sender's account
C19_Witness ==
  \E r, o \in Reqs :
    /\ OverdrawnByRace(r, o)
    /\ req[r].route = "transfer" /\ req[o].route \in MovementRoutes
    /\ profiles[req[r].user.id].balance = 0
    /\ balance0[req[r].user.id] - SumAmounts(Completed(req[r].user.id, "debit")) < 0

\* C21: calculateNewBalance(current, amount, type) is current + amount for
\* type credit, current - amount for type debit and current for every other
\* type, for all whole current and amount of -MaxCalc..MaxCalc.
Calculated(r) == req[r].route = "calculateNewBalance" /\ Done(r)

C21_NextBalance ==
  \A r \in Reqs :
    Calculated(r) =>
      LET current == req[r].profile
          amount == req[r].body.amount
          direction == req[r].body.type
          result == req[r].res.new_balance
      IN /\ direction = "credit" => result = current + amount
         /\ direction = "debit" => result = current - amount
         /\ direction \notin {"credit", "debit"} => result = current

C21_Witness ==
  \E r \in Reqs :
    /\ Calculated(r)
    /\ req[r].body.type = "other" /\ req[r].body.amount = MaxCalc
    /\ req[r].profile = 1 /\ req[r].res.new_balance = 1

\* the inputs of a movement request that the Validator rejects
InvalidDirection(r) == req[r].body.type \notin TRANSACTION_TYPES
InvalidAmount(r) == req[r].body.amount <= 0
InvalidCategory(r) == req[r].body.transaction_type \notin validTransactionTypes

\* a returned movement request of an active account, nothing interleaved,
\* with an invalid direction, amount or category
InvalidMovement(r) ==
  /\ Done(r) /\ req[r].route \in MovementRoutes /\ req[r].alone
  /\ req[r].pre[req[r].user.id].is_active
  /\ InvalidDirection(r) \/ InvalidAmount(r) \/ InvalidCategory(r)

\* C22 as stated: a movement request of an active account with an invalid
\* direction, amount or category issues no insert and no balance write and
\* answers INVALID_TRANSACTION_TYPE, INVALID_AMOUNT or
\* INVALID_TRANSACTION_CATEGORY, as named for an input that is invalid.
C22_InvalidInputsAsNamed ==
  \A r \in Reqs :
    InvalidMovement(r) =>
      /\ req[r].calls = NoCalls
      /\ \/ req[r].res.code = "INVALID_TRANSACTION_TYPE" /\ InvalidDirection(r)
         \/ req[r].res.code = "INVALID_AMOUNT" /\ InvalidAmount(r)
         \/ req[r].res.code = "INVALID_TRANSACTION_CATEGORY" /\ InvalidCategory(r)

\* the answer of the first check that rejects such a request: the route's
\* validator for the direction and the amount (without a code on POST
\* /api/transactions, VALIDATION_ERROR on the other routes), createTransfer's
\* own check of the recipient number, then the handler for the category
FirstInvalidInput(r) ==
  IF req[r].route = "createTransaction"
  THEN IF InvalidDirection(r) \/ InvalidAmount(r) THEN Reject(400, "none")
       ELSE Reject(400, "INVALID_TRANSACTION_CATEGORY")
  ELSE Reject(400, "VALIDATION_ERROR")

\* C22 amended: such a request fails with status 400 and no insert, delete
\* or balance write.  An invalid category alone answers
\* INVALID_TRANSACTION_CATEGORY; an invalid direction or an amount that is
\* not positive is answered by the route's validator.
C22_InvalidInputsRejectedBeforeWrites ==
  \A r \in Reqs :
    InvalidMovement(r) =>
      /\ req[r].calls = NoCalls
      /\ RowsOf(r) = {}
      /\ profiles = req[r].pre
      /\ req[r].failed = {} /\ req[r].thrown = "none"
      /\ req[r].res.status = FirstInvalidInput(r).status
      /\ req[r].res.code = FirstInvalidInput(r).code

C22_Witness ==
  \E r \in Reqs :
    /\ InvalidMovement(r)
    /\ ~InvalidDirection(r) /\ ~InvalidAmount(r)
    /\ req[r].body.transaction_type = "bogus"
    /\ req[r].res.code = "INVALID_TRANSACTION_CATEGORY"

\* a returned POST /api/transactions of a user id absent from profiles
AbsentAccount(r) ==
  /\ Done(r) /\ req[r].route = "authenticateToken"
  /\ req[r].user.id \notin DOMAIN req[r].pre

\* C23 as stated: a movement request on an account id absent from the store
\* answers ACCOUNT_NOT_FOUND whatever the other inputs are.
C23_AbsentAccountNotFound ==
  \A r \in Reqs :
    AbsentAccount(r) => req[r].res.code = ACCOUNT_NOT_FOUND

\* C23 amended: a movement request on an account id absent from the store is
\* answered 403 INVALID_TOKEN by authenticateToken whatever the other inputs
\* are, with no store write; the handler's own balance read, whose failure
\* answers ACCOUNT_NOT_FOUND, comes after the checks of the active flag, the
\* direction, the amount and the category.
C23_AbsentAccountRejectedByToken ==
  \A r \in Reqs :
    /\ AbsentAccount(r) =>
         /\ req[r].res.status = 403 /\ req[r].res.code = "INVALID_TOKEN"
         /\ req[r].calls = NoCalls /\ RowsOf(r) = {}
    /\ (Done(r) /\ req[r].route \in MovementRoutes
          /\ req[r].res.code = ACCOUNT_NOT_FOUND) =>
         /\ "getProfile" \in req[r].failed
         /\ req[r].user.is_active
         /\ ~InvalidDirection(r) /\ ~InvalidAmount(r) /\ ~InvalidCategory(r)

C23_Witness ==
  \E r \in Reqs :
    /\ AbsentAccount(r)
    /\ req[r].body.type = "other" /\ req[r].body.amount = 0
    /\ req[r].body.transaction_type = "bogus"
    /\ req[r].res.code = "INVALID_TOKEN"

\* C24: when transfer's credit insert returns an error the debit row's delete
\* is issued, and when the sender balance update returns an error the deletes
\* of the debit row and of the credit row are issued; when those deletes
\* succeed no row of the transfer is left and both balances are what they
\* were before the transfer.
CreditInsertFailed(r) ==
  /\ Done(r) /\ req[r].route = "transfer"
  /\ "insertCredit" \in req[r].failed /\ req[r].thrown = "none"

SenderUpdateFailed(r) ==
  /\ Done(r) /\ req[r].route = "transfer"
  /\ "updateSender" \in req[r].failed /\ req[r].thrown = "none"

DeletesSucceeded(r) ==
  req[r].alone /\ req[r].failed \cap CompensatingCalls = {}

C24_InsertAndSenderFailuresUndone ==
  \A r \in Reqs :
    /\ CreditInsertFailed(r) =>
         /\ req[r].issued = <<"deleteDebit">>
         /\ req[r].calls = [insert |-> 2, delete |-> 1, update |-> 0]
    /\ SenderUpdateFailed(r) =>
         /\ req[r].issued = <<"deleteDebit", "deleteCredit">>
         /\ req[r].calls = [insert |-> 2, delete |-> 2, update |-> 1]
    /\ ((CreditInsertFailed(r) \/ SenderUpdateFailed(r)) /\ DeletesSucceeded(r)) =>
         /\ RowsOf(r) = {}
         /\ \A u \in Users : profiles[u].balance = req[r].pre[u].balance
         /\ req[r].res.status = 400 /\ req[r].res.code = TRANSACTION_FAILED

C24_Witness ==
  \E r \in Reqs :
    /\ SenderUpdateFailed(r) /\ DeletesSucceeded(r)
    /\ req[r].transaction # 0 /\ req[r].creditTransaction # 0
    /\ req[r].body.amount > 0
    /\ nextId > req[r].creditTransaction

\* C25: a transfer that answers 200 returns the debit row it inserted for the
\* sender, and as new_balance the sender's balance before the transfer minus
\* the amount, which is the sender's stored balance when the answer is given.
TransferReturned(r) ==
  /\ Done(r) /\ req[r].route = "transfer" /\ req[r].alone
  /\ req[r].res.status = 200

C25_TransferReturnsDebitAndBalance ==
  \A r \in Reqs :
    TransferReturned(r) =>
      LET sender == req[r].user.id
      IN /\ req[r].res.new_balance = req[r].pre[sender].balance - req[r].body.amount
         /\ req[r].res.new_balance = profiles[sender].balance
         /\ \E t \in RowsOf(r) :
              /\ t.id = req[r].res.transaction
              /\ t.type = "debit" /\ t.user_id = sender
              /\ t.amount = req[r].body.amount

C25_Witness ==
  \E r \in Reqs :
    /\ TransferReturned(r)
    /\ req[r].body.amount = 1
    /\ req[r].pre[req[r].user.id].balance = 1
    /\ req[r].res.new_balance = 0
    /\ req[r].res.transaction # 0

\* C26: of the two rows one transfer has inserted, the sender's debit names
\* the recipient's account number, the recipient's credit names the sender's
\* account number, and both carry the category transfer.
TransferPairs ==
  {pair \in transactions \X transactions :
     /\ pair[1].op = pair[2].op
     /\ pair[1].type = "debit" /\ pair[2].type = "credit"}

Counterparties(d, c) ==
  /\ d.to_account_number = profiles[c.user_id].account_number
  /\ c.to_account_number = profiles[d.user_id].account_number

C26_TransferRowsNameEachOther ==
  \A pair \in TransferPairs :
    /\ Counterparties(pair[1], pair[2])
    /\ pair[1].transaction_type = "transfer"
    /\ pair[2].transaction_type = "transfer"

\* C27: in a serial history, a transfer that answers 200 with no store call
\* failing leaves the sum of all accounts' balances what it was before that
\* transfer.
RECURSIVE SumBalances(_, _)
SumBalances(rows, us) ==
  IF us = {} THEN 0
  ELSE LET u == CHOOSE u \in us : TRUE
       IN rows[u].balance + SumBalances(rows, us \ {u})

C27_SerialTransfersConserveTotal ==
  \A r \in Reqs :
    (serial /\ TransferReturned(r) /\ req[r].failed = {}) =>
      SumBalances(profiles, Users) = SumBalances(req[r].pre, Users)

C27_Witness ==
  \E r \in Reqs :
    /\ serial /\ TransferReturned(r) /\ req[r].failed = {}
    /\ req[r].op = 2
    /\ req[r].body.amount = 1
    /\ profiles[req[r].user.id].balance # req[r].pre[req[r].user.id].balance
    /\ profiles[req[r].recipient.id].balance # req[r].pre[req[r].recipient.id].balance

\* C28: when two transfers to the same recipient overlap (each read the
\* recipient's balance before the other wrote it) and both answer 200, the
\* recipient's balance is the balance they read plus both amounts.
RacingCredits(r, o) ==
  /\ r # o
  /\ Done(r) /\ req[r].route = "transfer" /\ req[r].res.status = 200
  /\ Done(o) /\ req[o].route = "transfer" /\ req[o].res.status = 200
  /\ ~req[r].alone /\ ~req[o].alone
  /\ req[r].recipient.id = req[o].recipient.id
  /\ req[r].recipient.balance = req[o].recipient.balance

C28_RacingCreditsBothApplied ==
  \A r, o \in Reqs :
    RacingCredits(r, o) =>
      profiles[req[r].recipient.id].balance =
        req[r].recipient.balance + req[r].body.amount + req[o].body.amount

\* C29: when a transfer whose recipient update failed writes the sender's
\* balance back, and another request on the sender's account has answered
\* with success while the transfer was in progress, the sender's balance
\* after the write still accounts for that request: it is the initial balance
\* plus the account's completed credits minus its completed debits.
RestoresSender(r) ==
  /\ req[r].pc = "rollback" /\ req[r].undo = <<"restoreSender">>
  /\ req'[r].pc = "done" /\ req'[r].failed = {"updateRecipient"}

CompletedBeside(r, o) ==
  /\ o # r /\ Done(o) /\ ~req[o].alone
  /\ req[o].res.status \in {200, 201}
  /\ \/ req[o].user.id = req[r].user.id
     \/ req[o].route = "transfer" /\ req[o].recipient.id = req[r].user.id

LedgerBalance(u) ==
  balance0[u] + SumAmounts(Completed(u, "credit")) - SumAmounts(Completed(u, "debit"))

C29_RestoreKeepsOthersEffect ==
  [][\A r, o \in Reqs :
       (RestoresSender(r) /\ CompletedBeside(r, o)) =>
         profiles'[req[r].user.id].balance = LedgerBalance(req[r].user.id)']_vars

\* C30: every step that turns an account's is_active from false to true is the
\* activation behind the admin credential (POST /admin/users/:userId/activate);
\* no request carrying only a user's token does it.
Activated(u) == ~profiles[u].is_active /\ profiles'[u].is_active

C30_ActivatedOnlyByAdmin ==
  [][\A u \in Users : Activated(u) => AdminActivate(u)]_vars

\* C31: a debit (a debit movement, or a transfer) of exactly the account's
\* balance is not answered INSUFFICIENT_FUNDS and, when it succeeds, leaves
\* the balance 0; INSUFFICIENT_FUNDS is answered only when the amount is
\* greater than the balance read.
IsDebit(r) ==
  \/ req[r].route \in MovementRoutes /\ req[r].body.type = "debit"
  \/ req[r].route = "transfer"

ExactDebit(r) ==
  /\ Done(r) /\ req[r].alone /\ IsDebit(r)
  /\ req[r].body.amount >= 1
  /\ req[r].body.amount = req[r].pre[req[r].user.id].balance

BalanceReadBy(r) ==
  IF req[r].route = "transfer" THEN req[r].senderProfile.balance ELSE req[r].profile

C31_ExactDebitAccepted ==
  \A r \in Reqs :
    /\ ExactDebit(r) =>
         /\ req[r].res.code # INSUFFICIENT_FUNDS
         /\ req[r].res.status \in {200, 201} =>
              /\ profiles[req[r].user.id].balance = 0
              /\ req[r].res.new_balance = 0
    /\ (Done(r) /\ req[r].res.code = INSUFFICIENT_FUNDS) =>
         /\ IsDebit(r)
         /\ req[r].body.amount > BalanceReadBy(r)

C31_Witness ==
  \E r \in Reqs :
    /\ ExactDebit(r)
    /\ req[r].route = "createWithdrawal"
    /\ req[r].res.status = 201
    /\ req[r].pre[req[r].user.id].balance = 1
    /\ profiles[req[r].user.id].balance = 0

\* C32: when createTransaction's insert, or transfer's debit insert, fails
\* (returns an error or rejects), the answer is TRANSACTION_FAILED, no row of
\* the request is in the ledger, no balance or other profile field has
\* changed, and no further write was attempted.
FirstInsertFailed(r) ==
  /\ Done(r) /\ req[r].alone
  /\ \/ /\ req[r].route \in MovementRoutes
        /\ "insert" \in req[r].failed \/ req[r].thrown = "insert"
     \/ /\ req[r].route = "transfer"
        /\ "insertDebit" \in req[r].failed \/ req[r].thrown = "insertDebit"

C32_InsertFailureChangesNothing ==
  \A r \in Reqs :
    FirstInsertFailed(r) =>
      /\ req[r].res.code = TRANSACTION_FAILED
      /\ req[r].res.status \in {400, 500}
      /\ RowsOf(r) = {}
      /\ profiles = req[r].pre
      /\ req[r].calls = [insert |-> 1, delete |-> 0, update |-> 0]

C32_Witness ==
  \E r \in Reqs :
    /\ FirstInsertFailed(r)
    /\ req[r].route = "transfer"
    /\ req[r].failed = {"insertDebit"}
    /\ req[r].res.status = 400
    /\ req[r].body.amount = 1
    /\ transactions # {}

\* C33: once a conversation is closed nothing is appended to it: a
\* sendMessage that finds it closed answers CONVERSATION_CLOSED and inserts
\* no row, and no bot reply is inserted into a closed conversation.
SentTo(c) ==
  {m \in chat_messages : m.id = chat[c].message /\ m.sender_type = "user"}

C33_NoMessageAfterClose ==
  /\ \A c \in ChatReqs :
       chat[c].res.code = "CONVERSATION_CLOSED" =>
         /\ chat[c].route = "sendMessage" /\ chat[c].res.status = 400
         /\ SentTo(c) = {}
  /\ \A m \in chat_messages : m.sender_type = "bot" => ~m.afterClose

\* C34: a createConversation request that has answered leaves its
\* conversation together with its initial user message, or neither of them
\* and no bot reply scheduled.
CreatedBy(c) == Conversation(chat[c].conversationId)
InitialMessage(c) ==
  {m \in chat_messages : m.conversation_id = chat[c].conversationId /\ m.sender_type = "user"}
ScheduledFor(c) == {t \in timers : t.conversation_id = chat[c].conversationId}

C34_ConversationWithMessageOrNeither ==
  \A c \in ChatReqs :
    (chat[c].pc = "done" /\ chat[c].route = "createConversation"
       /\ chat[c].conversationId # 0) =>
      \/ CreatedBy(c) # {} /\ InitialMessage(c) # {}
      \/ CreatedBy(c) = {} /\ InitialMessage(c) = {} /\ ScheduledFor(c) = {}

====
